---- MODULE Spec2Model ----
(***************************************************************************)
(* DNS override through /etc/resolv.conf (Linux daemon, package dns):      *)
(* the two files, the controller operations rconf_impl*, the DNS-change    *)
(* monitoring goroutine started by rconf_implSetManual, the unbuffered     *)
(* channel "done", external writers of the live file, and a daemon kill.   *)
(***************************************************************************)
EXTENDS Naturals, Sequences, FiniteSets

(* ------------------------------ bounds -------------------------------- *)
\* monitoring goroutines that can exist at the same time
NSlots == 2

\* direct calls of the file functions in one behaviour
MaxCalls == 2

\* events queued for one goroutine and not yet received; a further event is
\* merged into the last one queued
MaxPending == 2

Slots == 1..NSlots
Threads == {1, 2}

(* ------------------------- files and contents ------------------------- *)
\* a line of resolv.conf: <<directive, argument>>
HeaderLine == <<"#", "resolv.conf autogenerated">>
BlankLine == <<"", "">>
NameserverLine(ip) == <<"nameserver", ip>>

\* DnsSettings: the server addresses in the order supplied; <<>> is the empty
\* settings.
EmptyCfg == <<>>
ManualCfgs == {<<"10.0.0.1">>, <<"10.0.0.2">>, <<"10.0.0.2", "10.0.0.1">>}
IsEmpty(cfg) == cfg = EmptyCfg
AddressesOf(cfg) == {cfg[i] : i \in 1..Len(cfg)}
\* what dnsCfg.Ip() can return for each of the settings cfgs: one address. The
\* method is not part of this file; which address of settings that hold several
\* it returns is open, and the same in every call of one behaviour.
IpChoices(cfgs) == {f \in [cfgs -> UNION {AddressesOf(c) : c \in cfgs}] :
                      \A c \in cfgs : f[c] \in AddressesOf(c)}

OrigBody == <<NameserverLine("8.8.8.8")>>
ExtBody == <<NameserverLine("1.1.1.1")>>

NoFile == [exists |-> FALSE, data |-> <<>>]
FileOf(d) == [exists |-> TRUE, data |-> d]

\* a write of w at offset 0 of a file holding old (O_WRONLY, no O_APPEND)
WriteAt0(old, w) ==
    IF Len(old) > Len(w) THEN w \o SubSeq(old, Len(w) + 1, Len(old)) ELSE w

\* the text written by saveNewConfig for the address ip: "# ...\n\nnameserver <ip>\n"
OverrideText(ip) == <<HeaderLine, BlankLine, NameserverLine(ip)>>
IsOverride(f) ==
    f.exists /\ \E c \in ManualCfgs : \E ip \in AddressesOf(c) : f.data = OverrideText(ip)

(* ------------------------------- state -------------------------------- *)
VARIABLES
    live,      \* the file at resolvFile ("/etc/resolv.conf")
    backup,    \* the file at resolvBackupFile ("/etc/resolv.conf.ivpnsave")
    ctl,       \* per calling thread: the controller operation it executes
    mon,       \* per slot: a DNS-change monitoring goroutine
    held,      \* the paths whose file the process has opened: saveNewConfig never
               \* closes "out", so a descriptor on that file may still be open
    booted,    \* rconf_implInitialize was called since the process started
    env,       \* what this behaviour's environment does: the settings the callers
               \* pass (cfgs), whether system calls may fail (faults), the
               \* histories recorded (track), and the callers that make one call
               \* only (once)
    torn,      \* history "torn": DeleteManual/Pause returned, no SetManual called since
    pre,       \* history "session": the file the session's first SetManual moved to Backup
    sess,      \* history "session": "none", "ok" (no SetManual failed since), "failed",
               \* "wfailed" (the last SetManual failed in saveNewConfig)
    want,      \* history "latest": the settings of the latest successful SetManual
               \* since the last restore, or EmptyCfg
    calls      \* the direct calls of the file functions made so far, with results

vars == <<live, backup, ctl, mon, held, booted, env, torn, pre, sess, want, calls>>

\* dnsCfg.Ip()
Ip(cfg) == env.ip[cfg]
\* fmt.Sprintf("# resolv.conf autogenerated by '%s'\n\nnameserver %s\n", os.Args[0],
\* dnsCfg.Ip().String())
OverrideBody(cfg) == OverrideText(Ip(cfg))

\* where the inode behind an open descriptor or a watch is now
\* "none": no descriptor/watch, "gone": the inode has no path any more
Moved(how, at) ==
    CASE how = "MoveLB" -> IF at = "live" THEN "backup" ELSE IF at = "backup" THEN "gone" ELSE at
      [] how = "MoveBL" -> IF at = "backup" THEN "live" ELSE IF at = "live" THEN "gone" ELSE at
      [] how = "Unlinked" -> IF at = "live" THEN "gone" ELSE at
      [] OTHER -> at
\* the path whose file the change replaces or unlinks ("nowhere": the change
\* unlinks no file)
Replaced(how) ==
    CASE how = "MoveLB" -> "backup"
      [] how = "MoveBL" -> "live"
      [] how = "Unlinked" -> "live"
      [] OTHER -> "nowhere"
\* the paths with a descriptor of the process after the change
HeldAfter(hd, how) ==
    CASE how = "MoveLB" -> IF "live" \in hd THEN {"backup"} ELSE {}
      [] how = "MoveBL" -> IF "backup" \in hd THEN {"live"} ELSE {}
      [] how = "Unlinked" -> hd \ {"live"}
      [] OTHER -> hd

\* A file that lost its path and is still watched: the kernel keeps the watch for
\* as long as a descriptor on the file is open. While a saveNewConfig is between
\* OpenFile and WriteString on such a file the file has a name of its own here,
\* which its descriptors and watches share; once nobody is going to write to it
\* any more its watches are at "kept".
GoneIds == <<"gone1", "gone2", "gone3", "gone4", "gone5", "gone6">>
GoneFiles == {GoneIds[k] : k \in 1..Len(GoneIds)}
InUse(mn) == {mn[m].fd : m \in Slots} \cup {ctl[t].fd : t \in Threads}
Fresh(mn) ==
    GoneIds[CHOOSE k \in 1..Len(GoneIds) :
               /\ GoneIds[k] \notin InUse(mn)
               /\ \A j \in 1..(k - 1) : GoneIds[j] \in InUse(mn)]
Watched(mn, at) == \E m \in Slots : mn[m].w = at
\* a saveNewConfig has opened the file at "at" and not yet written to it
Writing(mn, at) == (\E m \in Slots : mn[m].fd = at) \/ (\E t \in Threads : ctl[t].fd = at)

\* whether a descriptor of the process is open on the file that loses its path:
\* it is while a saveNewConfig is between OpenFile and WriteString on that file;
\* afterwards "out" is never closed, the runtime closes it when it collects the
\* os.File value, which may or may not have happened
Lingers(mn, hd, how) ==
    LET at == Replaced(how)
    IN  IF ~Watched(mn, at) THEN {FALSE}
        ELSE IF Writing(mn, at) THEN {TRUE}
        ELSE IF at \in hd THEN {TRUE, FALSE} ELSE {FALSE}

\* a descriptor at "at" after the change: it follows its file
FdAt(mn, how, at) ==
    IF at # Replaced(how) THEN Moved(how, at)
    ELSE IF Watched(mn, at) THEN Fresh(mn) ELSE "gone"
\* a watch at "at" after the change: it follows its file; the watch on a file
\* that lost its path stays if a descriptor on the file is open (lg) and is
\* removed by the kernel otherwise
WatchAt(mn, lg, how, at) ==
    IF at # Replaced(how) THEN Moved(how, at)
    ELSE IF ~lg THEN "none"
    ELSE IF Writing(mn, at) THEN Fresh(mn) ELSE "kept"
\* the events a watch at "at" gets when the files in "hit" change: one for a write
\* (IN_MODIFY) or a rename of its file (IN_MOVE_SELF); for a file that loses its
\* path IN_ATTRIB and, unless a descriptor keeps the file, IN_DELETE_SELF
Raised(lg, how, hit, at) ==
    IF at \notin hit THEN 0
    ELSE IF at = Replaced(how) /\ ~lg THEN 2 ELSE 1
Queued(n, k) == IF n + k > MaxPending THEN MaxPending ELSE n + k

MonIdle == [pc |-> "idle", cfg |-> EmptyCfg, w |-> "none", ev |-> 0, fd |-> "none"]
\* out: the settings the operation returns (dnsInfoForFirewall)
\* hint: the error returned carries the snap message for the user
\* arg, created: isOverwriteIfExists and the result "created" of a direct call of
\* rconf_createBackup
\* sent: history "sent", the branch the operation's latest select on "done" took:
\* "none" (no select yet), "default" (nothing sent), or the select the receiver
\* was suspended in ("watch", "debounce")
CtlIdle == [pc |-> "idle", op |-> "none", cfg |-> EmptyCfg, ph |-> 1, fd |-> "none",
            err |-> "nil", out |-> EmptyCfg, sent |-> "none", hint |-> FALSE,
            arg |-> FALSE, created |-> FALSE]
CtlOff == [CtlIdle EXCEPT !.pc = "off"]

\* every goroutine after a change of the files in "hit": descriptors and watches
\* follow their file, and each watch on a changed file queues its events
SeesIn(mn, lg, how, hit) ==
    [m \in Slots |-> [mn[m] EXCEPT !.w = WatchAt(mn, lg, how, @),
                                   !.fd = FdAt(mn, how, @),
                                   !.ev = Queued(@, Raised(lg, how, hit, mn[m].w))]]
MonSees(lg, how, hit) == SeesIn(mon, lg, how, hit)
\* the goroutines after the WriteString (or its failure) of a descriptor at "at":
\* each watch on that file gets IN_MODIFY if something was written; "still": another
\* saveNewConfig has the file open and has not written yet
Wrote(at, wrote, still) ==
    [m \in Slots |-> [mon[m] EXCEPT
        !.ev = IF wrote /\ mon[m].w = at THEN Queued(@, 1) ELSE @,
        !.w = IF @ = at /\ at \in GoneFiles /\ ~still THEN "kept" ELSE @]]
CtlSees(how) == [t \in Threads |-> [ctl[t] EXCEPT !.fd = FdAt(mon, how, @)]]

\* what the platform reports about a snap sandbox: "none" (not a snap), "allowed"
\* (a snap that may manage resolv.conf), "restricted" (not allowed, with a message
\* for the user), "silent" (not allowed, empty message)
SnapEnvs == {"none", "allowed", "restricted", "silent"}
\* a check that forgets to look at "allowed"
SnapHint_anysnap == env.snap # "none"
\* GetSnapEnvs() != nil, !allowed and len(userErrMsgIfNotAllowed) > 0: the error
\* returned is fmt.Errorf("%w\n\n%s", err, userErrMsgIfNotAllowed)
SnapHint == env.snap = "restricted"

\* outcomes of a system call: TRUE succeeds
Outcomes == IF env.faults THEN {TRUE, FALSE} ELSE {TRUE}
\* _, err := os.Stat(path) gives err == nil: the file is there and the call itself
\* did not fail (ok); the callers take every error for "does not exist"
StatOk(f, ok) == ok /\ f.exists
WriteOutcomes == IF env.faults THEN {"ok", "write", "sync"} ELSE {"ok"}

Alive(m) == mon[m].pc # "idle"
\* a goroutine suspended in a select that has the case <-done
ParkedIn(g) == g.pc \in {"watch", "debounce"}
Parked(m) == ParkedIn(mon[m])
\* a goroutine that leaves the select but not the loop on <-done
Stopped_break(g) == [g EXCEPT !.pc = IF @ = "debounce" THEN "cb_live" ELSE "return"]
\* case <-done: the goroutine has the value and is runnable again; its next
\* statement is the return
Stopped(g) == [g EXCEPT !.pc = "return"]
InOp(t) == ctl[t].pc \notin {"idle", "off"}
Quiescent == \A t \in Threads : ~InOp(t)

(* ------------------------ controller operations ----------------------- *)
\* a caller beside the first: it makes one call, SetManual or DeleteManual, at any
\* moment, and leaves
Guest(t) == t \in env.once
CanCall(t) ==
    /\ booted
    /\ ctl[t].pc = "idle"
    /\ \A u \in Threads : ctl[u].op # "Initialize"

\* goroutines alive plus those the running SetManual calls will still start
Claimed ==
    Cardinality({m \in Slots : Alive(m)})
      + Cardinality({t \in Threads : InOp(t) /\ ctl[t].op = "SetManual"
                                       /\ ~IsEmpty(ctl[t].cfg) /\ ctl[t].pc # "ret"})

Enter(t, op, cfg, pc0) ==
    ctl' = [ctl EXCEPT ![t] = [CtlIdle EXCEPT !.pc = pc0, !.op = op, !.cfg = cfg]]

\* called once on application start
CallInitialize(t) ==
    /\ t = 1 /\ ~booted /\ ctl[t].pc = "idle"
    /\ booted' = TRUE
    /\ Enter(t, "Initialize", EmptyCfg, "i_stat")
    /\ UNCHANGED <<live, backup, mon, env, held, calls, torn, pre, sess, want>>

CallSetManual(t, cfg) ==
    /\ CanCall(t)
    /\ IsEmpty(cfg) \/ Claimed < NSlots
    /\ Enter(t, "SetManual", cfg, "sm_stop")
    /\ torn' = (IF "torn" \in env.track THEN FALSE ELSE torn)
    /\ UNCHANGED <<live, backup, mon, booted, env, held, calls, pre, sess, want>>

CallDeleteManual(t) ==
    /\ CanCall(t)
    /\ Enter(t, "DeleteManual", EmptyCfg, "dm_stop")
    /\ UNCHANGED <<live, backup, mon, booted, env, held, calls, torn, pre, sess, want>>

CallPause(t) ==
    /\ CanCall(t) /\ ~Guest(t)
    /\ Enter(t, "Pause", EmptyCfg, "p_stat")
    /\ UNCHANGED <<live, backup, mon, booted, env, held, calls, torn, pre, sess, want>>

\* a Resume that writes the override again
rconf_implResume_reapply(t) ==
    /\ CanCall(t) /\ ~Guest(t)
    /\ ctl' = [ctl EXCEPT ![t] = [CtlIdle EXCEPT !.pc = "ret", !.op = "Resume"]]
    /\ \E cfg \in env.cfgs : live' = FileOf(OverrideBody(cfg))
    /\ UNCHANGED <<backup, mon, booted, env, held, calls, torn, pre, sess, want>>
\* rconf_implResume: return nil
rconf_implResume(t) ==
    /\ CanCall(t) /\ ~Guest(t)
    /\ ctl' = [ctl EXCEPT ![t] = [CtlIdle EXCEPT !.pc = "ret", !.op = "Resume"]]
    /\ UNCHANGED <<live, backup, mon, booted, env, held, calls, torn, pre, sess, want>>

\* rconf_implInitialize: os.Stat(resolvBackupFile)
rconf_implInitialize(t) ==
    /\ ctl[t].pc = "i_stat"
    /\ \E ok \in Outcomes :
         ctl' = [ctl EXCEPT ![t].pc = IF StatOk(backup, ok) THEN "dm_stop" ELSE "ret"]
    /\ UNCHANGED <<live, backup, mon, booted, env, held, calls, torn, pre, sess, want>>

\* rconf_isBackupExists: _, err := os.Stat(resolvBackupFile); return err == nil
rconf_isBackupExists(ok) == StatOk(backup, ok)

\* a Pause that goes to the restore without the stop
rconf_implPause_skipstop(t) ==
    /\ ctl[t].pc = "p_stat"
    /\ \E ok \in Outcomes :
         ctl' = [ctl EXCEPT ![t].pc = IF rconf_isBackupExists(ok) THEN "rb_stat" ELSE "ret"]
    /\ UNCHANGED <<live, backup, mon, booted, env, held, calls, torn, pre, sess, want>>
\* rconf_implPause: if !rconf_isBackupExists() { return nil }
rconf_implPause(t) ==
    /\ ctl[t].pc = "p_stat"
    /\ \E ok \in Outcomes :
         ctl' = [ctl EXCEPT ![t].pc = IF rconf_isBackupExists(ok) THEN "p_stop" ELSE "ret"]
    /\ UNCHANGED <<live, backup, mon, booted, env, held, calls, torn, pre, sess, want>>

\* the statement after a call of rconf_stopDNSChangeMonitoring
AfterStop(c) ==
    CASE c.pc = "sm_stop" -> IF IsEmpty(c.cfg) THEN "dm_stop" ELSE "cb_live"
      [] c.pc = "dm_stop" -> "rb_stat"
      [] c.pc = "p_stop" -> "rb_stat"

\* a channel with a buffer: the stop also reaches a goroutine that is not suspended
Receivers_buffered == {m \in Slots : Alive(m) /\ mon[m].pc # "return"}
\* the goroutines the send on "done" can be handed to: select { case done <- x: default: }
\* on an unbuffered channel succeeds only if a receiver is suspended on it
Receivers == {m \in Slots : Parked(m)}

Sent(branch) == IF "sent" \in env.track THEN branch ELSE "none"

rconf_stopDNSChangeMonitoring(t) ==
    /\ ctl[t].pc \in {"sm_stop", "dm_stop", "p_stop"}
    /\ IF Receivers = {}
       THEN /\ mon' = mon
            /\ ctl' = [ctl EXCEPT ![t].pc = AfterStop(ctl[t]), ![t].sent = Sent("default")]
       ELSE \E m \in Receivers :
              /\ mon' = [mon EXCEPT ![m] = Stopped(@)]
              /\ ctl' = [ctl EXCEPT ![t].pc = AfterStop(ctl[t]), ![t].sent = Sent(mon[m].pc)]
    /\ UNCHANGED <<live, backup, booted, env, held, calls, torn, pre, sess, want>>

\* a restoreBackup that renames without looking whether Backup exists
rconf_restoreBackup_stat_skip(t) ==
    /\ ctl[t].pc = "rb_stat"
    /\ ctl' = [ctl EXCEPT ![t].pc = "rb_ren"]
    /\ UNCHANGED <<live, backup, mon, booted, env, held, calls, torn, pre, sess, want>>
\* rconf_restoreBackup: os.Stat(resolvBackupFile)
rconf_restoreBackup_stat(t) ==
    /\ ctl[t].pc = "rb_stat"
    /\ \E ok \in Outcomes :
         ctl' = [ctl EXCEPT ![t].pc = IF StatOk(backup, ok) THEN "rb_ren" ELSE "ret"]
    /\ UNCHANGED <<live, backup, mon, booted, env, held, calls, torn, pre, sess, want>>

\* a restore that copies Backup to the live path and leaves Backup in place
rconf_restoreBackup_rename_copy(t) ==
    /\ ctl[t].pc = "rb_ren"
    /\ \E ok \in Outcomes, lg \in Lingers(mon, held, "MoveBL") :
         IF ok /\ backup.exists
         THEN /\ live' = backup
              /\ backup' = backup
              /\ mon' = MonSees(lg, "MoveBL", {"live", "backup"})
              /\ held' = HeldAfter(held, "MoveBL")
              /\ ctl' = [CtlSees("MoveBL") EXCEPT ![t].pc = "ret"]
              /\ sess' = "none"
              /\ pre' = NoFile
         ELSE /\ ctl' = [ctl EXCEPT ![t].pc = "ret", ![t].err = "restore"]
              /\ UNCHANGED <<live, backup, mon, held, pre, sess>>
    /\ UNCHANGED <<booted, env, calls, torn, want>>
\* a restore that does not report a failed rename
rconf_restoreBackup_rename_swallow(t) ==
    /\ ctl[t].pc = "rb_ren"
    /\ \E ok \in Outcomes, lg \in Lingers(mon, held, "MoveBL") :
         IF ok /\ backup.exists
         THEN /\ live' = backup
              /\ backup' = NoFile
              /\ mon' = MonSees(lg, "MoveBL", {"live", "backup"})
              /\ held' = HeldAfter(held, "MoveBL")
              /\ ctl' = [CtlSees("MoveBL") EXCEPT ![t].pc = "ret"]
              /\ sess' = "none"
              /\ pre' = NoFile
         ELSE /\ ctl' = [ctl EXCEPT ![t].pc = "ret", ![t].err = "nil"]
              /\ UNCHANGED <<live, backup, mon, held, pre, sess>>
    /\ UNCHANGED <<booted, env, calls, torn, want>>
\* rconf_restoreBackup: os.Rename(resolvBackupFile, resolvFile)
rconf_restoreBackup_rename(t) ==
    /\ ctl[t].pc = "rb_ren"
    /\ \E ok \in Outcomes, lg \in Lingers(mon, held, "MoveBL") :
         IF ok /\ backup.exists
         THEN /\ live' = backup
              /\ backup' = NoFile
              /\ mon' = MonSees(lg, "MoveBL", {"live", "backup"})
              /\ held' = HeldAfter(held, "MoveBL")
              /\ ctl' = [CtlSees("MoveBL") EXCEPT ![t].pc = "ret"]
              /\ sess' = "none"
              /\ pre' = NoFile
         ELSE /\ ctl' = [ctl EXCEPT ![t].pc = "ret", ![t].err = "restore"]
              /\ UNCHANGED <<live, backup, mon, held, pre, sess>>
    /\ UNCHANGED <<booted, env, calls, torn, want>>

(* ------------- rconf_createBackup and saveNewConfig, by step ---------- *)
\* a createBackup that never reports a missing source file
SourceMissing_never(l, ok) == FALSE
\* rconf_createBackup: os.Stat(resolvFile) gives an error
SourceMissing(l, ok) == ~StatOk(l, ok)
\* rconf_createBackup: os.Stat(resolvBackupFile) gives no error and the backup is
\* not to be overwritten
KeepsBackup(b, ok, isOverwriteIfExists) == StatOk(b, ok) /\ ~isOverwriteIfExists
\* createBackupIfNotExists: isOwerwriteIfExists := false
IsOwerwriteIfExists == FALSE

\* the file behind a descriptor at "at" after WriteString(body)
Written(f, at, here, body) ==
    IF at = here /\ f.exists THEN FileOf(WriteAt0(f.data, body)) ELSE f

\* the flag rconf_createBackup is called with: the caller's argument in a direct
\* call, isOwerwriteIfExists in createBackupIfNotExists()
Overwrite(c) == IF c.op = "createBackup" THEN c.arg ELSE IsOwerwriteIfExists

\* where rconf_createBackup returns to: the caller of a direct call; in SetManual
\* the first createBackupIfNotExists() (ph 1) and the one inside saveNewConfig
\* (ph 2, result ignored)
CbDone(c) ==
    IF c.op = "createBackup" THEN [c EXCEPT !.pc = "ret"]
    ELSE IF c.ph = 1 THEN [c EXCEPT !.ph = 2, !.pc = "cb_live"]
    ELSE [c EXCEPT !.pc = "open"]
\* return true, nil: SetManual drops "created"
CbCreated(c) == [CbDone(c) EXCEPT !.created = (c.op = "createBackup")]
CbFailed(c, e) ==
    IF c.op = "createBackup" THEN [c EXCEPT !.pc = "ret", !.err = e]
    ELSE IF c.ph = 1 THEN [c EXCEPT !.pc = "ret", !.err = e, !.hint = SnapHint]
    ELSE [c EXCEPT !.pc = "open"]

\* rconf_createBackup: os.Stat(resolvFile)
rconf_createBackup_statSource(t) ==
    /\ ctl[t].pc = "cb_live"
    /\ \E ok \in Outcomes :
         ctl' = [ctl EXCEPT ![t] = IF SourceMissing(live, ok)
                                   THEN CbFailed(@, "backup_source")
                                   ELSE [@ EXCEPT !.pc = "cb_bak"]]
    /\ UNCHANGED <<live, backup, mon, booted, env, held, calls, torn, pre, sess, want>>

\* rconf_createBackup: os.Stat(resolvBackupFile)
rconf_createBackup_statBackup(t) ==
    /\ ctl[t].pc = "cb_bak"
    /\ \E ok \in Outcomes :
         ctl' = [ctl EXCEPT ![t] = IF KeepsBackup(backup, ok, Overwrite(@))
                                   THEN CbDone(@)
                                   ELSE [@ EXCEPT !.pc = "cb_ren"]]
    /\ UNCHANGED <<live, backup, mon, booted, env, held, calls, torn, pre, sess, want>>

\* rconf_createBackup: os.Rename(resolvFile, resolvBackupFile)
rconf_createBackup_rename(t) ==
    /\ ctl[t].pc = "cb_ren"
    /\ \E ok \in Outcomes, lg \in Lingers(mon, held, "MoveLB") :
         IF ok /\ live.exists
         THEN /\ live' = NoFile
              /\ backup' = live
              /\ mon' = MonSees(lg, "MoveLB", {"live", "backup"})
              /\ held' = HeldAfter(held, "MoveLB")
              /\ ctl' = [CtlSees("MoveLB") EXCEPT ![t] = CbCreated(@)]
              /\ IF "session" \in env.track /\ sess = "none"
                 THEN pre' = live /\ sess' = "ok"
                 ELSE UNCHANGED <<pre, sess>>
         ELSE /\ ctl' = [ctl EXCEPT ![t] = CbFailed(@, "backup_rename")]
              /\ UNCHANGED <<live, backup, mon, held, pre, sess>>
    /\ UNCHANGED <<booted, env, calls, torn, want>>

\* saveNewConfig: os.OpenFile(resolvFile, O_CREATE|O_WRONLY|O_TRUNC, 0644)
saveNewConfig_open(t) ==
    /\ ctl[t].pc = "open"
    /\ \E ok \in Outcomes :
         IF ok
         THEN /\ live' = FileOf(<<>>)
              /\ mon' = MonSees(FALSE, "Stays", {"live"})
              /\ held' = held \cup {"live"}
              /\ ctl' = [ctl EXCEPT ![t].pc = "write", ![t].fd = "live"]
         ELSE /\ ctl' = [ctl EXCEPT ![t].pc = "ret", ![t].err = "open"]
              /\ UNCHANGED <<live, mon, held>>
    /\ UNCHANGED <<backup, booted, env, calls, torn, pre, sess, want>>

\* another saveNewConfig, of a goroutine or of another thread, has the file of
\* thread t's descriptor open and has not written yet
StillOpen(t) ==
    \/ \E m \in Slots : mon[m].fd = ctl[t].fd
    \/ \E u \in Threads \ {t} : ctl[u].fd = ctl[t].fd

\* saveNewConfig: out.WriteString(...) and out.Sync()
saveNewConfig_write(t) ==
    /\ ctl[t].pc = "write"
    /\ \E r \in WriteOutcomes :
         IF r = "write"
         THEN /\ ctl' = [ctl EXCEPT ![t].pc = "ret", ![t].err = "write", ![t].fd = "none"]
              /\ mon' = Wrote(ctl[t].fd, FALSE, StillOpen(t))
              /\ UNCHANGED <<live, backup>>
         ELSE /\ live' = Written(live, ctl[t].fd, "live", OverrideBody(ctl[t].cfg))
              /\ backup' = Written(backup, ctl[t].fd, "backup", OverrideBody(ctl[t].cfg))
              /\ mon' = Wrote(ctl[t].fd, TRUE, StillOpen(t))
              /\ ctl' = [ctl EXCEPT ![t].fd = "none",
                                    ![t].pc = IF r = "ok" THEN "spawn" ELSE "ret",
                                    ![t].err = IF r = "ok" THEN "nil" ELSE "sync"]
    /\ UNCHANGED <<booted, env, held, calls, torn, pre, sess, want>>

\* the slot the new goroutine takes
FreeSlot == CHOOSE m \in Slots : ~Alive(m) /\ \A k \in Slots : ~Alive(k) => m <= k

\* rconf_implSetManual: go func() { ... }(), return dnsCfg, nil
StartMonitor(t) ==
    /\ ctl[t].pc = "spawn"
    /\ \E m \in Slots : ~Alive(m)
    /\ mon' = [mon EXCEPT ![FreeSlot] = [MonIdle EXCEPT !.pc = "start", !.cfg = ctl[t].cfg]]
    /\ ctl' = [ctl EXCEPT ![t].pc = "ret", ![t].out = ctl[t].cfg]
    /\ want' = IF "latest" \in env.track THEN ctl[t].cfg ELSE want
    /\ UNCHANGED <<live, backup, booted, env, held, calls, torn, pre, sess>>

\* the number of monitoring goroutines alive
Running == Cardinality({m \in Slots : Alive(m)})
\* the record of the direct call that returns with c: its results, and the
\* files and the goroutines it leaves
Closed(c) ==
    IF calls = <<>> \/ calls[Len(calls)].done THEN calls
    ELSE [calls EXCEPT ![Len(calls)] =
            [@ EXCEPT !.done = TRUE, !.created = c.created, !.err = c.err,
                      !.out = c.out, !.hint = c.hint,
                      !.live1 = live, !.backup1 = backup, !.alive1 = Running]]

\* the operation returns to its caller
Return(t) ==
    LET c == ctl[t]
        manual == c.op = "SetManual" /\ ~IsEmpty(c.cfg)
        ends == c.op # "Resume" /\ ~manual /\ c.err = "nil"
    IN  /\ c.pc = "ret"
        /\ ctl' = [ctl EXCEPT ![t] = IF Guest(t) THEN CtlOff ELSE CtlIdle]
        /\ torn' = IF "torn" \in env.track /\ c.op \in {"DeleteManual", "Pause"}
                   THEN TRUE ELSE torn
        /\ sess' = IF "session" \notin env.track THEN sess
                   ELSE IF manual /\ c.err \in {"open", "write", "sync"} THEN "wfailed"
                   ELSE IF manual /\ (c.err # "nil" \/ sess = "wfailed") THEN "failed"
                   ELSE IF ends THEN "none" ELSE sess
        /\ pre' = IF sess' = "none" THEN NoFile ELSE pre
        /\ want' = IF "latest" \in env.track /\ ends THEN EmptyCfg ELSE want
        /\ calls' = Closed(c)
        /\ UNCHANGED <<live, backup, mon, booted, env, held>>

(* ------------------- the DNS-change monitoring goroutine -------------- *)
Rest == <<booted, env, calls, torn, pre, sess, want>>
Others == <<held, booted, env, calls, torn, pre, sess, want>>

\* w, err := fsnotify.NewWatcher(); on an error the goroutine returns
MonNewWatcher(m) ==
    /\ mon[m].pc = "start"
    /\ \E created \in Outcomes :
         mon' = [mon EXCEPT ![m] = IF created THEN [@ EXCEPT !.pc = "add"] ELSE MonIdle]
    /\ UNCHANGED <<live, backup, ctl>> /\ UNCHANGED Others

\* a goroutine that goes on to the select when the watch cannot be registered
MonAdd_noreturn(m) ==
    /\ mon[m].pc = "add"
    /\ \E added \in Outcomes :
         mon' = [mon EXCEPT ![m] = IF added /\ live.exists
                                   THEN [@ EXCEPT !.pc = "select", !.w = "live"]
                                   ELSE [@ EXCEPT !.pc = "select"]]
    /\ UNCHANGED <<live, backup, ctl>> /\ UNCHANGED Others
\* err = w.Add(resolvFile), in every round of the loop; on an error the goroutine
\* returns. From here on the watch collects the events of the file.
MonAdd(m) ==
    /\ mon[m].pc = "add"
    /\ \E added \in Outcomes :
         mon' = [mon EXCEPT ![m] = IF added /\ live.exists
                                   THEN [@ EXCEPT !.pc = "select", !.w = "live"]
                                   ELSE MonIdle]
    /\ UNCHANGED <<live, backup, ctl>> /\ UNCHANGED Others

\* the goroutine reaches the first select and is suspended on w.Events and done
MonSelect(m) ==
    /\ mon[m].pc = "select"
    /\ mon' = [mon EXCEPT ![m].pc = "watch"]
    /\ UNCHANGED <<live, backup, ctl>> /\ UNCHANGED Others

\* case evt = <-w.Events
MonEvent(m) ==
    /\ mon[m].pc = "watch"
    /\ mon[m].ev > 0
    /\ mon' = [mon EXCEPT ![m].pc = "remove", ![m].ev = @ - 1]
    /\ UNCHANGED <<live, backup, ctl>> /\ UNCHANGED Others

\* w.Remove(resolvFile). The events still queued are dropped with the watch, or
\* are already being handed to w.Events and are received in the next rounds.
MonRemove(m) ==
    /\ mon[m].pc = "remove"
    /\ \E keep \in 0..mon[m].ev :
         mon' = [mon EXCEPT ![m].pc = "after", ![m].w = "none", ![m].ev = keep]
    /\ UNCHANGED <<live, backup, ctl>> /\ UNCHANGED Others

\* the goroutine reaches the second select and is suspended on the timer
\* time.After(time.Second * 2) and done
MonAfter(m) ==
    /\ mon[m].pc = "after"
    /\ mon' = [mon EXCEPT ![m].pc = "debounce"]
    /\ UNCHANGED <<live, backup, ctl>> /\ UNCHANGED Others

\* case <-time.After(time.Second * 2)
MonTimer(m) ==
    /\ mon[m].pc = "debounce"
    /\ mon' = [mon EXCEPT ![m].pc = "cb_live"]
    /\ UNCHANGED <<live, backup, ctl>> /\ UNCHANGED Others

\* case <-done: return, then the deferred log.Info and w.Close(); until then the
\* goroutine exists and its watch collects events
MonReturn(m) ==
    /\ mon[m].pc = "return"
    /\ mon' = [mon EXCEPT ![m] = MonIdle]
    /\ UNCHANGED <<live, backup, ctl>> /\ UNCHANGED Others

\* saveNewConfig -> rconf_createBackup: os.Stat(resolvFile); the result is ignored
MonStatSource(m) ==
    /\ mon[m].pc = "cb_live"
    /\ \E ok \in Outcomes :
         mon' = [mon EXCEPT ![m].pc = IF SourceMissing(live, ok) THEN "open" ELSE "cb_bak"]
    /\ UNCHANGED <<live, backup, ctl>> /\ UNCHANGED Others

\* saveNewConfig -> rconf_createBackup: os.Stat(resolvBackupFile)
MonStatBackup(m) ==
    /\ mon[m].pc = "cb_bak"
    /\ \E ok \in Outcomes :
         mon' = [mon EXCEPT ![m].pc = IF KeepsBackup(backup, ok, IsOwerwriteIfExists)
                                      THEN "open" ELSE "cb_ren"]
    /\ UNCHANGED <<live, backup, ctl>> /\ UNCHANGED Others

\* saveNewConfig -> rconf_createBackup: os.Rename(resolvFile, resolvBackupFile)
MonRename(m) ==
    /\ mon[m].pc = "cb_ren"
    /\ \E ok \in Outcomes, lg \in Lingers(mon, held, "MoveLB") :
         IF ok /\ live.exists
         THEN /\ live' = NoFile
              /\ backup' = live
              /\ mon' = [MonSees(lg, "MoveLB", {"live", "backup"}) EXCEPT ![m].pc = "open"]
              /\ held' = HeldAfter(held, "MoveLB")
              /\ ctl' = CtlSees("MoveLB")
         ELSE /\ mon' = [mon EXCEPT ![m].pc = "open"]
              /\ UNCHANGED <<live, backup, ctl, held>>
    /\ UNCHANGED Rest

\* saveNewConfig: os.OpenFile(...); on an error the loop goes on with w.Add
MonOpen(m) ==
    /\ mon[m].pc = "open"
    /\ \E ok \in Outcomes :
         IF ok
         THEN /\ live' = FileOf(<<>>)
              /\ mon' = [MonSees(FALSE, "Stays", {"live"}) EXCEPT ![m].pc = "write", ![m].fd = "live"]
              /\ held' = held \cup {"live"}
         ELSE /\ mon' = [mon EXCEPT ![m].pc = "add"]
              /\ UNCHANGED <<live, held>>
    /\ UNCHANGED <<backup, ctl>> /\ UNCHANGED Rest

\* saveNewConfig: out.WriteString(...) and out.Sync(); then the loop goes on
MonWrite(m) ==
    /\ mon[m].pc = "write"
    /\ \E r \in WriteOutcomes :
         LET still == (\E k \in Slots \ {m} : mon[k].fd = mon[m].fd)
                         \/ (\E t \in Threads : ctl[t].fd = mon[m].fd)
         IN  IF r = "write"
             THEN /\ mon' = [Wrote(mon[m].fd, FALSE, still)
                               EXCEPT ![m].pc = "add", ![m].fd = "none"]
                  /\ UNCHANGED <<live, backup>>
             ELSE /\ live' = Written(live, mon[m].fd, "live", OverrideBody(mon[m].cfg))
                  /\ backup' = Written(backup, mon[m].fd, "backup", OverrideBody(mon[m].cfg))
                  /\ mon' = [Wrote(mon[m].fd, TRUE, still)
                               EXCEPT ![m].pc = "add", ![m].fd = "none"]
    /\ UNCHANGED ctl /\ UNCHANGED Others

(* ----------------------------- environment ---------------------------- *)
\* another process rewrites the live file in place
ExternalWrite ==
    /\ booted /\ \A t \in Threads : ctl[t].op # "Initialize"
    /\ live.exists
    /\ live' = FileOf(ExtBody)
    /\ mon' = MonSees(FALSE, "Stays", {"live"})
    /\ UNCHANGED <<backup, ctl, booted, env, held, calls, torn, pre, sess, want>>

\* another process replaces the live file (writes a new file, renames it over)
ExternalReplace ==
    /\ booted /\ \A t \in Threads : ctl[t].op # "Initialize"
    /\ live' = FileOf(ExtBody)
    /\ \E lg \in Lingers(mon, held, "Unlinked") : mon' = MonSees(lg, "Unlinked", {"live"})
    /\ held' = HeldAfter(held, "Unlinked")
    /\ ctl' = CtlSees("Unlinked")
    /\ UNCHANGED <<backup, booted, env, calls, torn, pre, sess, want>>

\* the runtime collects the os.File values nobody refers to any more and closes
\* their descriptors. With the last descriptor of a file that has no path the
\* kernel deletes the file: IN_DELETE_SELF, and the watch is removed.
Finalize ==
    \E m \in Slots :
        /\ mon[m].w = "kept"
        /\ mon' = [mon EXCEPT ![m].w = "none", ![m].ev = Queued(@, 1)]
        /\ UNCHANGED <<live, backup, ctl>> /\ UNCHANGED Others

\* the daemon process is killed: goroutines, descriptors and watches are gone,
\* the files stay; the next start calls Initialize
Crash ==
    /\ booted
    /\ booted' = FALSE
    /\ ctl' = [t \in Threads |-> IF ctl[t].pc = "off" THEN CtlOff ELSE CtlIdle]
    /\ mon' = [m \in Slots |-> MonIdle]
    /\ torn' = FALSE
    /\ held' = {}
    /\ want' = EmptyCfg
    /\ UNCHANGED <<live, backup, env, calls, pre, sess>>

(* --------------------------- specifications --------------------------- *)
InitWith(nthreads, cfgs, f, track) ==
    /\ live = FileOf(OrigBody)
    /\ backup = NoFile
    /\ ctl = [t \in Threads |-> IF t <= nthreads THEN CtlIdle ELSE CtlOff]
    /\ mon = [m \in Slots |-> MonIdle]
    /\ held = {}
    /\ booted = FALSE
    /\ env \in {[cfgs |-> cfgs, faults |-> f, track |-> track, snap |-> "none", ip |-> i,
                  once |-> 2..nthreads]
                 : i \in IpChoices(cfgs)}
    /\ torn = FALSE
    /\ pre = NoFile
    /\ sess = "none"
    /\ want = EmptyCfg
    /\ calls = <<>>

Init == InitWith(1, {<<"10.0.0.1">>}, FALSE, {})

\* the next statement of the operation thread t executes
OperationStep(t) ==
    \/ rconf_implInitialize(t)
    \/ rconf_implPause(t)
    \/ rconf_stopDNSChangeMonitoring(t)
    \/ rconf_restoreBackup_stat(t)
    \/ rconf_restoreBackup_rename(t)
    \/ rconf_createBackup_statSource(t)
    \/ rconf_createBackup_statBackup(t)
    \/ rconf_createBackup_rename(t)
    \/ saveNewConfig_open(t)
    \/ saveNewConfig_write(t)
    \/ StartMonitor(t)
    \/ Return(t)

\* the daemon's callers call the operations; an operation runs statement by
\* statement
ControllerStep(t) ==
    \/ CallInitialize(t)
    \/ \E cfg \in env.cfgs \cup {EmptyCfg} : CallSetManual(t, cfg)
    \/ CallDeleteManual(t)
    \/ CallPause(t)
    \/ rconf_implResume(t)
    \/ OperationStep(t)

MonitorStep(m) ==
    \/ MonNewWatcher(m)
    \/ MonAdd(m)
    \/ MonSelect(m)
    \/ MonEvent(m)
    \/ MonRemove(m)
    \/ MonAfter(m)
    \/ MonTimer(m)
    \/ MonStatSource(m)
    \/ MonStatBackup(m)
    \/ MonRename(m)
    \/ MonOpen(m)
    \/ MonWrite(m)
    \/ MonReturn(m)

\* the program alone: no other process touches the live file
NextAlone ==
    \/ \E t \in Threads : ControllerStep(t)
    \/ \E m \in Slots : MonitorStep(m)
    \/ Finalize
\* the program and the other processes, which rewrite the live file in place or
\* replace it
Next ==
    \/ \E t \in Threads : ControllerStep(t)
    \/ \E m \in Slots : MonitorStep(m)
    \/ Finalize
    \/ ExternalWrite
    \/ ExternalReplace

Spec == Init /\ [][Next]_vars

SpecAlone == Init /\ [][NextAlone]_vars

\* the same program, with the history "torn" recorded
InitTorn == InitWith(1, {<<"10.0.0.1">>}, FALSE, {"torn"})
SpecTorn == InitTorn /\ [][Next]_vars

\* the program alone, with the history "session" recorded
InitSession == InitWith(1, {<<"10.0.0.1">>}, FALSE, {"session"})
SpecSession == InitSession /\ [][NextAlone]_vars

\* the program alone, called with two different settings; the history "latest" is
\* recorded
InitLatest == InitWith(1, {<<"10.0.0.1">>, <<"10.0.0.2">>}, FALSE, {"latest"})
SpecLatest == InitLatest /\ [][NextAlone]_vars

\* the same program, with the history "sent" recorded
InitSent == InitWith(1, {<<"10.0.0.1">>}, FALSE, {"sent"})
SpecSent == InitSent /\ [][Next]_vars

\* system calls may fail
InitFault == InitWith(1, {<<"10.0.0.1">>}, TRUE, {})
SpecFault == InitFault /\ [][Next]_vars

\* the program alone; the daemon may be killed at any step and started again
NextCrash == NextAlone \/ Crash
SpecCrash == InitSession /\ [][NextCrash]_vars

\* the program alone with system calls that may fail, killed and started again at
\* any step, with the history "session" recorded
InitRecover == InitWith(1, {<<"10.0.0.1">>}, TRUE, {"session"})
SpecRecover == InitRecover /\ [][NextCrash]_vars

\* the program alone, with two threads that call the controller: the first
\* calls at will, the second makes one call of SetManual or DeleteManual at any
\* moment and leaves
InitConc == InitWith(2, {<<"10.0.0.1">>}, FALSE, {})
SpecConc == InitConc /\ [][NextAlone]_vars

\* the program and the other processes, with the history "latest" recorded.
\* Every monitoring goroutine that can take a step eventually takes one: the Go
\* scheduler runs every runnable goroutine and the debounce timer expires
InitFair == InitWith(1, {<<"10.0.0.1">>}, FALSE, {"latest"})
Fairness == \A m \in Slots : WF_vars(MonitorStep(m))
SpecFair == InitFair /\ [][Next]_vars /\ Fairness

(* --------- DeleteManual, Pause and SetManual(empty) as functions ------- *)
\* rconf_restoreBackup() on the files l and b: the error and the files afterwards
rconf_restoreBackup(l, b, statOk, renameOk) ==
    IF ~StatOk(b, statOk)
    THEN [err |-> "nil", live |-> l, backup |-> b]
    ELSE IF ~renameOk
    THEN [err |-> "restore", live |-> l, backup |-> b]
    ELSE [err |-> "nil", live |-> b, backup |-> NoFile]

\* What an operation does when no goroutine and no other process takes a step
\* while it runs, from the files l and b, the goroutines mn and the descriptors
\* hd: the set of its possible outcomes (the values returned, the files, the
\* goroutines and the descriptors afterwards). Two operations are compared by
\* these sets.
Outcome(e, o, l, b, mn, hd) ==
    [err |-> e, out |-> o, live |-> l, backup |-> b, mon |-> mn, held |-> hd]

\* rconf_stopDNSChangeMonitoring(): the goroutines afterwards
StopFrom(mn) ==
    LET r == {m \in Slots : ParkedIn(mn[m])}
    IN  IF r = {} THEN {mn} ELSE {[mn EXCEPT ![m] = Stopped(@)] : m \in r}

\* rconf_restoreBackup()
RestoreFrom(l, b, mn, hd) ==
    UNION {LET r == rconf_restoreBackup(l, b, w[1], w[2])
           IN  IF ~(StatOk(b, w[1]) /\ w[2])
               THEN {Outcome(r.err, EmptyCfg, r.live, r.backup, mn, hd)}
               ELSE {Outcome(r.err, EmptyCfg, r.live, r.backup,
                             SeesIn(mn, lg, "MoveBL", {"live", "backup"}),
                             HeldAfter(hd, "MoveBL"))
                       : lg \in Lingers(mn, hd, "MoveBL")}
             : w \in Outcomes \X Outcomes}

\* rconf_implDeleteManual(nil): stop, then restore
rconf_implDeleteManual(l, b, mn, hd) ==
    UNION {RestoreFrom(l, b, mn1, hd) : mn1 \in StopFrom(mn)}

\* rconf_implSetManual(dnsCfg, ip) with dnsCfg.IsEmpty(): the stop, then
\* return DnsSettings{}, rconf_implDeleteManual(nil)
rconf_implSetManual_empty(l, b, mn, hd) ==
    UNION {rconf_implDeleteManual(l, b, mn1, hd) : mn1 \in StopFrom(mn)}

(* ----------------- the functions, called from any files ---------------- *)
\* A caller (thread 1) calls the functions of the package one after the other,
\* from any files; each call runs statement by statement beside the goroutines
\* started so far, and is recorded: the arguments, what the call found (0), its
\* results, and the files and the number of goroutines alive at the call (0) and
\* at the return (1).
Begin(fn, arg, cfg, pc0) ==
    /\ ctl[1].pc = "idle"
    /\ Len(calls) < MaxCalls
    /\ ctl' = [ctl EXCEPT ![1] = [CtlIdle EXCEPT !.pc = pc0, !.op = fn, !.cfg = cfg,
                                                 !.arg = arg]]
    /\ calls' = Append(calls, [fn |-> fn, arg |-> arg, cfg |-> cfg, done |-> FALSE,
                               created |-> FALSE, err |-> "nil", out |-> EmptyCfg,
                               hint |-> FALSE,
                               live0 |-> live, backup0 |-> backup, alive0 |-> Running,
                               live1 |-> live, backup1 |-> backup, alive1 |-> Running])
    /\ UNCHANGED <<live, backup, mon, held, booted, env, torn, pre, sess, want>>

\* Initialize is the first call after the process started
CallInitializeUnit == Len(calls) = 0 /\ Begin("Initialize", FALSE, EmptyCfg, "i_stat")
CallDeleteManualUnit == Begin("DeleteManual", FALSE, EmptyCfg, "dm_stop")
CallPauseUnit == Begin("Pause", FALSE, EmptyCfg, "p_stat")
CallSetManualUnit ==
    \E cfg \in env.cfgs \cup {EmptyCfg} :
        /\ IsEmpty(cfg) \/ Claimed < NSlots
        /\ Begin("SetManual", FALSE, cfg, "sm_stop")
CallCreateBackup == \E ow \in BOOLEAN : Begin("createBackup", ow, EmptyCfg, "cb_live")
CallRestoreBackup == Begin("restoreBackup", FALSE, EmptyCfg, "rb_stat")

\* the files a call can find
UnitFiles == {NoFile, FileOf(OrigBody), FileOf(ExtBody), FileOf(OverrideText("10.0.0.1"))}
InitUnitWith(cfgs, f, snaps, files) ==
    /\ live \in files
    /\ backup \in files
    /\ ctl = [t \in Threads |-> IF t = 1 THEN CtlIdle ELSE CtlOff]
    /\ mon = [m \in Slots |-> MonIdle]
    /\ held = {}
    /\ booted = FALSE
    /\ env \in {[cfgs |-> cfgs, faults |-> f, track |-> {}, snap |-> sn, ip |-> i,
                  once |-> {}]
                 : sn \in snaps, i \in IpChoices(cfgs)}
    /\ torn = FALSE
    /\ pre = NoFile
    /\ sess = "none"
    /\ want = EmptyCfg
    /\ calls = <<>>
InitUnit == InitUnitWith({<<"10.0.0.1">>, <<"10.0.0.2", "10.0.0.1">>}, FALSE, {"none"},
                         UnitFiles)
NextUnit ==
    \/ CallCreateBackup
    \/ CallRestoreBackup
    \/ CallInitializeUnit
    \/ CallDeleteManualUnit
    \/ CallPauseUnit
    \/ CallSetManualUnit
    \/ OperationStep(1)
    \/ \E m \in Slots : MonitorStep(m)
    \/ Finalize
SpecUnit == InitUnit /\ [][NextUnit]_vars

\* the same direct calls, with system calls that may fail
InitUnitFault == InitUnitWith({<<"10.0.0.1">>}, TRUE, {"none"}, UnitFiles)
SpecUnitFault == InitUnitFault /\ [][NextUnit]_vars

\* the same, inside and outside a snap sandbox, from the files of a system
\* with or without a resolv.conf and with or without a Backup left behind
SnapFiles == {NoFile, FileOf(OrigBody)}
InitUnitSnap == InitUnitWith({<<"10.0.0.1">>}, TRUE, SnapEnvs, SnapFiles)
SpecUnitSnap == InitUnitSnap /\ [][NextUnit]_vars

(* ----------------------------- properties ------------------------------ *)
\* the goroutine in slot m renamed the live file to Backup in this step
MonRenamed(m) ==
    mon[m].pc = "cb_ren" /\ mon'[m].pc = "open" /\ live.exists /\ ~live'.exists
\* the goroutine in slot m truncated or created the live file in this step
MonOpened(m) == mon[m].pc = "open" /\ mon'[m].pc = "write"
\* the goroutine in slot m wrote its override text in this step
MonWrote(m) == mon[m].pc = "write" /\ mon'[m].pc = "add" /\ mon'[m].fd = "none"
Reasserting(m) == mon[m].pc \in {"cb_live", "cb_bak", "cb_ren", "open", "write"}
\* the goroutines that monitor: alive and not stopped (one that has received the
\* stop only has its return left)
AliveMonitors == {m \in Slots : Alive(m) /\ mon[m].pc # "return"}

\* C5: in every reachable state at most one monitoring goroutine is alive.
C5_SingleMonitor == Cardinality(AliveMonitors) <= 1

\* C6: once DeleteManual or Pause has returned and until the next SetManual is
\* called, no monitoring goroutine renames the live file to Backup, truncates
\* the live file or writes override text.
C6_SingleWriter ==
    [][torn => \A m \in Slots : ~MonRenamed(m) /\ ~MonOpened(m) /\ ~MonWrote(m)]_vars

\* C7: while Backup exists its content never changes, and it never holds
\* override text.
C7_BackupWriteOnce ==
    [][/\ (backup.exists /\ backup'.exists) => backup' = backup
       /\ ~IsOverride(backup')]_vars

\* C8: every reassertion of a monitoring goroutine writes the override for the
\* settings of the most recent successful SetManual.
C8_LatestSettingsWin ==
    [][\A m \in Slots : (MonWrote(m) /\ want # EmptyCfg) => mon[m].cfg = want]_vars

\* thread t completes op without an error in this step
Completes(t, op) ==
    /\ ctl[t].op = op
    /\ ctl[t].pc \in {"i_stat", "p_stat", "rb_stat", "rb_ren"}
    /\ ctl'[t].pc = "ret"
    /\ ctl'[t].err = "nil"

\* C1: a DeleteManual that follows the successful SetManual calls of a session
\* leaves at the live path the content the session's first SetManual moved to
\* Backup, and leaves Backup absent.
C1_RoundTrip ==
    [][\A t \in Threads : (Completes(t, "DeleteManual") /\ sess = "ok")
                             => (live' = pre /\ ~backup'.exists)]_vars

\* C3: after a kill at any step, an Initialize that returns no error leaves
\* Backup absent and the pre-override original at the live path.
C3_CrashRecovery ==
    [][\A t \in Threads : Completes(t, "Initialize")
                             => (~backup'.exists /\ (sess = "ok" => live' = pre))]_vars

\* no controller operation and no reassertion is in progress, and the live file
\* is not the text left by another process
Settled ==
    /\ Quiescent
    /\ \A m \in Slots : ~Reasserting(m)
    /\ ~(live.exists /\ live.data = ExtBody)

\* C2: whenever no operation is in progress, Backup exists if and only if the
\* live path holds override text.
C2_SessionMarker == Settled => (backup.exists <=> IsOverride(live))

\* C9: no two controller calls have both found Backup absent and are both about
\* to rename the live file, and Backup never holds override text.
C9_Serialized ==
    /\ Cardinality({t \in Threads : ctl[t].pc = "cb_ren"}) <= 1
    /\ ~IsOverride(backup)

\* an override session is active, no controller call is in progress, and the
\* live file does not hold the override for the session's settings
Drift ==
    /\ want # EmptyCfg
    /\ Quiescent
    /\ live # FileOf(OverrideBody(want))

\* the same, found when the only goroutine has written the override and is about
\* to register its watch again (w.Add in the next round of the loop)
DriftBeforeAdd ==
    /\ Drift
    /\ Cardinality(AliveMonitors) = 1
    /\ \E m \in Slots : mon[m].pc = "add"

\* C4: during a session an external modification of the live file, here one that
\* falls between a reassertion write and the re-registration of the watch, is
\* followed with no controller call by a state in which the live file holds the
\* override again, provided the external modifications eventually stop.
C4_Reassertion ==
    (<>[][~(ExternalWrite \/ ExternalReplace)]_vars) => (DriftBeforeAdd ~> ~Drift)

\* call i is a direct call of fn that has returned
IsCall(i, fn) == i <= Len(calls) /\ calls[i].done /\ calls[i].fn = fn
\* no monitoring goroutine was alive when the call was made
NoMonitor(c) == c.alive0 = 0
\* call i+1 found the files and the number of goroutines as call i left them
Successive(i) ==
    /\ i + 1 <= Len(calls)
    /\ calls[i + 1].live0 = calls[i].live1
    /\ calls[i + 1].backup0 = calls[i].backup1
    /\ calls[i + 1].alive0 = calls[i].alive1

\* calls i and i+1 are createBackup(false) in succession with no goroutine
\* running, the first one made with the live file present and Backup absent
TwiceFrom(i) ==
    /\ IsCall(i, "createBackup") /\ ~calls[i].arg
    /\ IsCall(i + 1, "createBackup") /\ ~calls[i + 1].arg
    /\ Successive(i) /\ NoMonitor(calls[i])
    /\ calls[i].live0.exists /\ ~calls[i].backup0.exists
Renamed(c) == c.live0.exists /\ ~c.live1.exists /\ c.backup1 = c.live0
FirstRenames(c) == c.created /\ c.err = "nil" /\ Renamed(c)

\* C10 as claimed: the first call renames and returns (true, nil), the second
\* renames nothing, returns (false, nil) and leaves Backup as it is.
C10_TwiceNoError ==
    \A i \in 1..MaxCalls : TwiceFrom(i) =>
        /\ FirstRenames(calls[i])
        /\ ~Renamed(calls[i + 1]) /\ ~calls[i + 1].created
        /\ calls[i + 1].err = "nil"
        /\ calls[i + 1].backup1 = calls[i].backup1

\* C10 amended: the second call finds the live file gone, renames nothing,
\* returns (false, source-missing error) and leaves Backup as it is.
C10_TwiceSourceMissing ==
    \A i \in 1..MaxCalls : TwiceFrom(i) =>
        /\ FirstRenames(calls[i])
        /\ ~Renamed(calls[i + 1]) /\ ~calls[i + 1].created
        /\ calls[i + 1].err = "backup_source"
        /\ calls[i + 1].backup1 = calls[i].backup1
        /\ calls[i + 1].live1 = calls[i].live1

C10_Witness == TwiceFrom(1) /\ calls[2].err = "backup_source"

\* call i is a restoreBackup made with no goroutine running; calls i and i+1 are
\* two of them in succession
IsRestore(i) == IsCall(i, "restoreBackup") /\ NoMonitor(calls[i])
RestoreTwice(i) == IsRestore(i) /\ IsRestore(i + 1) /\ Successive(i)
Untouched(c) == c.live1 = c.live0 /\ c.backup1 = c.backup0

\* C11: restoreBackup with Backup absent returns nil and touches neither file;
\* with Backup present it moves Backup to the live path; a second restoreBackup
\* right after the first returns nil and touches neither file, so the files
\* after two calls are the files after one.
C11_RestoreIdempotent ==
    \A i \in 1..MaxCalls :
        /\ (IsRestore(i) /\ ~calls[i].backup0.exists)
              => (calls[i].err = "nil" /\ Untouched(calls[i]))
        /\ (IsRestore(i) /\ calls[i].backup0.exists)
              => (calls[i].err = "nil" /\ calls[i].live1 = calls[i].backup0
                    /\ ~calls[i].backup1.exists)
        /\ RestoreTwice(i)
              => (calls[i + 1].err = "nil" /\ Untouched(calls[i + 1])
                    /\ calls[i + 1].live1 = calls[i].live1
                    /\ calls[i + 1].backup1 = calls[i].backup1)

C11_Witness == RestoreTwice(1) /\ calls[1].backup0.exists /\ calls[1].live0.exists

\* the addresses of the nameserver lines of a file's text, in order
IsNameserver(ln) == ln[1] = "nameserver"
Addresses(data) ==
    LET ns == SelectSeq(data, IsNameserver) IN [i \in 1..Len(ns) |-> ns[i][2]]
\* thread t's SetManual writes its text to the live file in this step
\* (WriteString succeeds on the file OpenFile truncated)
SavesLive(t) ==
    /\ ctl[t].op = "SetManual" /\ ctl[t].pc = "write" /\ ctl[t].fd = "live"
    /\ ctl'[t].pc # "write" /\ ctl'[t].err # "write"

\* C12: the text SetManual(s) writes has one nameserver line per address of s,
\* in the order supplied, and no other nameserver line.
C12_OnePerAddress ==
    [][\A t \in Threads : SavesLive(t) => Addresses(live'.data) = ctl[t].cfg]_vars

\* thread t executes a statement of the operation op in this step
Steps(t, op) == ctl[t].op = op /\ ctl'[t] # ctl[t]
\* thread t's Initialize executes the os.Rename of rconf_restoreBackup in this step
InitializeRenames(t) == Steps(t, "Initialize") /\ ctl[t].pc = "rb_ren"

Callable == booted /\ Quiescent

\* C14: from every state of the files and the goroutines in which a call can be
\* made, SetManual with the empty settings has the outcomes of DeleteManual: the
\* same error, the empty settings, the same files and the same goroutines
\* afterwards.
C14_EmptyIsDelete ==
    Callable => rconf_implSetManual_empty(live, backup, mon, held)
                   = rconf_implDeleteManual(live, backup, mon, held)

\* a thread inside Pause, read as a thread inside DeleteManual at the same place
AsDelete(c) ==
    IF c.op = "Pause"
    THEN [c EXCEPT !.op = "DeleteManual", !.pc = IF @ = "p_stop" THEN "dm_stop" ELSE @]
    ELSE c
Frame == live' = live /\ backup' = backup /\ mon' = mon /\ held' = held
\* a statement of DeleteManual, taking the thread from c to d: the stop, the Stat
\* and the Rename of rconf_restoreBackup, the return
DeleteManualStep(c, d) ==
    \/ /\ c.pc = "dm_stop"
       /\ d = [c EXCEPT !.pc = "rb_stat", !.sent = d.sent]
       /\ mon' \in StopFrom(mon)
       /\ live' = live /\ backup' = backup /\ held' = held
    \/ /\ c.pc = "rb_stat"
       /\ \E ok \in Outcomes :
            d = [c EXCEPT !.pc = IF StatOk(backup, ok) THEN "rb_ren" ELSE "ret"]
       /\ Frame
    \/ /\ c.pc = "rb_ren"
       /\ d = [c EXCEPT !.pc = "ret", !.err = d.err]
       /\ Outcome(d.err, d.out, live', backup', mon', held')
              \in RestoreFrom(live, backup, mon, held)
    \/ /\ c.pc = "ret"
       /\ d = CtlIdle
       /\ Frame

\* C15: a Pause called with Backup absent returns nil and changes no file and no
\* goroutine. A Pause called with Backup present ends as a DeleteManual called
\* in the same state ends: either it is from there on a DeleteManual (it stands
\* where a DeleteManual just called stands, and each of its statements is the
\* statement DeleteManual executes at that place, with the same effect on the
\* files and the goroutines and the same error), or it returns at once and what
\* it leaves and returns is an outcome of DeleteManual from that state.
C15_PauseIsDelete ==
    [][\A t \in Threads :
         /\ (Steps(t, "Pause") /\ ctl[t].pc = "p_stat" /\ ~backup.exists)
               => (ctl'[t] = [ctl[t] EXCEPT !.pc = "ret"] /\ ctl'[t].err = "nil" /\ Frame)
         /\ (Steps(t, "Pause") /\ ctl[t].pc = "p_stat" /\ backup.exists)
               => /\ Frame
                  /\ \/ AsDelete(ctl'[t])
                           = [CtlIdle EXCEPT !.pc = "dm_stop", !.op = "DeleteManual"]
                     \/ /\ ctl'[t] = [ctl[t] EXCEPT !.pc = "ret"]
                        /\ Outcome("nil", EmptyCfg, live, backup, mon, held)
                              \in rconf_implDeleteManual(live, backup, mon, held)
         /\ (Steps(t, "Pause") /\ ctl[t].pc # "p_stat")
               => DeleteManualStep(AsDelete(ctl[t]), AsDelete(ctl'[t]))
         /\ Steps(t, "DeleteManual") => DeleteManualStep(ctl[t], ctl'[t])]_vars

\* C16: a call of Resume returns nil and changes neither the live file, nor
\* Backup, nor any goroutine, also when it follows a Pause: the override is not
\* written again and no monitoring goroutine is started.
C16_ResumeNoop ==
    [][\A t \in Threads :
         ((ctl[t].pc = "idle" /\ ctl'[t].op = "Resume")
            \/ (ctl[t].op = "Resume" /\ ctl'[t].pc = "idle"))
         => /\ live' = live /\ backup' = backup /\ mon' = mon
            /\ ctl'[t].err = "nil"]_vars

C16_Witness ==
    /\ torn /\ ctl[1].op = "Resume" /\ ctl[1].pc = "ret" /\ ctl[1].err = "nil"
    /\ ~IsOverride(live) /\ ~backup.exists /\ AliveMonitors = {}

\* thread t executes rconf_stopDNSChangeMonitoring in this step; the send is
\* dropped when no goroutine is suspended on "done"
StopStep(t) == ctl[t].pc \in {"sm_stop", "dm_stop", "p_stop"} /\ ctl'[t].pc # ctl[t].pc
Dropped(t) == StopStep(t) /\ Receivers = {}

\* C17: a stop request with no goroutine suspended to receive it changes nothing:
\* the caller goes on with its next statement and no error, the files and the
\* goroutines stay as they are; and nothing stays pending: a goroutine gets a
\* stop only in the very step that sends it, suspended in a select, and it ends
\* only after such a stop or on its own watcher error.
C17_DroppedStopNoop ==
    [][/\ \A t \in Threads : Dropped(t) =>
             /\ mon' = mon /\ live' = live /\ backup' = backup
             /\ ctl'[t].pc = AfterStop(ctl[t]) /\ ctl'[t].err = "nil"
       /\ \A m \in Slots : (mon[m].pc # "return" /\ mon'[m].pc = "return") =>
             (Parked(m) /\ \E t \in Threads : StopStep(t) /\ ~Dropped(t))
       /\ \A m \in Slots : (Alive(m) /\ ~Alive(m)') =>
             mon[m].pc \in {"start", "add", "return"}]_vars

\* a SetManual whose stop was dropped has returned its settings, and the one
\* goroutine it started is suspended in a select
C17_Witness ==
    /\ ctl[1].op = "SetManual" /\ ctl[1].sent = "default"
    /\ ctl[1].pc = "ret" /\ ctl[1].out # EmptyCfg
    /\ Cardinality(AliveMonitors) = 1
    /\ \E m \in Slots : Parked(m) /\ mon[m].cfg = ctl[1].cfg

\* C18: whenever a stop request is dropped, no monitoring goroutine is alive.
C18_DroppedMeansNone ==
    [][\A t \in Threads : Dropped(t) => AliveMonitors = {}]_vars

\* C19: a goroutine that receives a stop, in its first select or in the debounce
\* select, has only its return left: the step that hands it the stop changes no
\* file and no other goroutine, the goroutine holds no descriptor, its one
\* further step ends it with no watch and changes no file, and an ended
\* goroutine takes no further step (its slot is only taken again by a new go
\* func).
C19_StopTerminates ==
    [][/\ \A t \in Threads : StopStep(t) =>
             /\ live' = live /\ backup' = backup
             /\ \A m \in Slots : mon'[m] # mon[m]
                   => (Parked(m) /\ mon'[m] = [mon[m] EXCEPT !.pc = "return"])
       /\ \A m \in Slots : mon[m].pc = "return" =>
             /\ mon[m].fd = "none"
             /\ mon'[m].pc \in {"return", "idle"}
             /\ mon'[m].pc = "idle"
                   => (mon'[m] = MonIdle /\ live' = live /\ backup' = backup /\ ctl' = ctl)
       /\ \A m \in Slots : (~Alive(m) /\ mon'[m] # mon[m]) =>
             (mon'[m].pc = "start" /\ \E t \in Threads : ctl[t].pc = "spawn")]_vars

\* a stop has just been received by a goroutine in its debounce select
C19_Witness ==
    /\ ctl[1].sent = "debounce" /\ ctl[1].pc \in {"cb_live", "dm_stop", "rb_stat"}
    /\ AliveMonitors = {}
    /\ \E m \in Slots : mon[m].pc = "return"

\* thread t's rconf_createBackup, called directly or by SetManual before its
\* saveNewConfig, executes os.Stat(resolvFile) in this step and the file is absent
StatsMissing(t, op) ==
    /\ ctl[t].op = op /\ ctl[t].ph = 1
    /\ ctl[t].pc = "cb_live" /\ ctl'[t].pc # "cb_live"
    /\ ~live.exists

\* C20: createBackup that finds the live file absent returns (false,
\* source-missing error) and changes neither file, whatever the overwrite flag
\* and whether or not Backup exists; SetManual with non-empty settings then
\* returns that error and the empty settings; it writes nothing and starts no
\* goroutine: its next and last step is the return.
C20_SourceMissing ==
    [][\A t \in Threads :
         /\ (StatsMissing(t, "createBackup") \/ StatsMissing(t, "SetManual")) =>
               /\ ctl'[t].pc = "ret" /\ ctl'[t].err = "backup_source"
               /\ ~ctl'[t].created /\ IsEmpty(ctl'[t].out)
               /\ live' = live /\ backup' = backup /\ mon' = mon
         /\ (ctl[t].pc = "ret" /\ ctl'[t] # ctl[t]) =>
               /\ ctl'[t] = CtlIdle
               /\ live' = live /\ backup' = backup /\ mon' = mon]_vars

\* createBackup(true) with Backup present has returned the error, and SetManual
\* is about to return it
C20_Witness ==
    /\ IsCall(1, "createBackup") /\ calls[1].arg /\ calls[1].backup0.exists
    /\ calls[1].err = "backup_source" /\ ~calls[1].created
    /\ ctl[1].op = "SetManual" /\ ~IsEmpty(ctl[1].cfg)
    /\ ctl[1].pc = "ret" /\ ctl[1].err = "backup_source"

\* the errors of SetManual's backup step and of its write step
BackupErrors == {"backup_source", "backup_rename"}
WriteErrors == {"open", "write", "sync"}
IsManual(i) == IsCall(i, "SetManual") /\ ~IsEmpty(calls[i].cfg)

\* C21 as claimed: a SetManual that fails in its backup step or in its write step
\* returns the underlying error, with the message for the user exactly when the
\* platform reports a snap that is not allowed to manage resolv.conf and gives a
\* non-empty message.
C21_HintOnAnyFailure ==
    \A i \in 1..MaxCalls : (IsManual(i) /\ calls[i].err # "nil") =>
        /\ calls[i].err \in BackupErrors \cup WriteErrors
        /\ calls[i].hint <=> (env.snap = "restricted")

\* C21 amended: the message is added only to an error of the backup step; an
\* error of the write step is returned as it is in every environment.
C21_HintOnBackupFailure ==
    \A i \in 1..MaxCalls : (IsManual(i) /\ calls[i].err # "nil") =>
        /\ calls[i].err \in BackupErrors \cup WriteErrors
        /\ calls[i].err \in BackupErrors => (calls[i].hint <=> (env.snap = "restricted"))
        /\ calls[i].err \in WriteErrors => ~calls[i].hint

C21_Witness ==
    /\ IsManual(1) /\ calls[1].err = "backup_rename" /\ calls[1].hint
    /\ IsManual(2) /\ calls[2].err \in WriteErrors /\ ~calls[2].hint

CtlMutates(t) ==
    /\ ctl[t].pc \in {"rb_ren", "cb_ren", "open", "write"}
    /\ ctl'[t].pc # ctl[t].pc
    /\ live' # live \/ backup' # backup

\* C23: every rename or write of a controller operation (SetManual,
\* DeleteManual, Pause, Initialize) comes after the stop request of that
\* operation.
C23_StopBeforeMutate ==
    [][\A t \in Threads : CtlMutates(t) => ctl[t].sent # "none"]_vars

\* a Pause has sent its stop and then restored Backup
C23_Witness ==
    /\ ctl[1].op = "Pause" /\ ctl[1].pc = "ret" /\ ctl[1].err = "nil"
    /\ ctl[1].sent # "none" /\ ~backup.exists

\* the goroutine is past w.Remove and before the next w.Add
Deregistered(g) ==
    g.pc \in {"after", "debounce", "cb_live", "cb_bak", "cb_ren", "open", "write", "add"}

\* C24: a goroutine holds its watch only from w.Add until the w.Remove that
\* follows a received event, and once it has deregistered nothing is left that
\* starts a further cycle: during the debounce, the reassertion and up to the next
\* w.Add it has no watch and no event is waiting for it, so the edits that led to
\* this debounce are answered by exactly one reassertion write.
C24_WatchOnlyWhileWatching ==
    \A m \in Slots : Deregistered(mon[m]) => (mon[m].w = "none" /\ mon[m].ev = 0)

\* C25: a goroutine whose watcher cannot be created (NewWatcher) or whose watch
\* cannot be registered (w.Add) ends in that step, without another attempt and
\* without touching a file or the controller; otherwise it goes on to w.Add, and
\* from w.Add with the watch on the live file to the select. The SetManual that
\* started it returns nil and the settings it applied whatever happens to the
\* goroutine.
C25_StartFailureNonFatal ==
    [][\A m \in Slots :
         /\ (mon[m].pc = "start" /\ mon'[m].pc # "start")
               => /\ \/ mon'[m] = [mon[m] EXCEPT !.pc = "add"] /\ mon'[m].w = "none"
                     \/ mon'[m] = MonIdle
                  /\ live' = live /\ backup' = backup /\ ctl' = ctl
         /\ (mon[m].pc = "add" /\ mon'[m].pc # "add")
               => /\ \/ mon'[m].pc = "select" /\ mon'[m].w = "live" /\ live.exists
                     \/ mon'[m] = MonIdle
                  /\ live' = live /\ backup' = backup /\ ctl' = ctl
         /\ (~Alive(m) /\ Alive(m)')
               => /\ mon'[m].pc = "start"
                  /\ \E t \in Threads :
                        /\ ctl[t].pc = "spawn" /\ ctl'[t].pc = "ret"
                        /\ ctl'[t].err = "nil" /\ ctl'[t].out = mon'[m].cfg
                        /\ ~IsEmpty(ctl'[t].out)]_vars

\* SetManual is about to return its settings, the override is written and Backup
\* is there, and the goroutine it started has already ended
C25_Witness ==
    /\ ctl[1].op = "SetManual" /\ ctl[1].pc = "ret" /\ ctl[1].err = "nil"
    /\ ~IsEmpty(ctl[1].out)
    /\ AliveMonitors = {}
    /\ IsOverride(live) /\ backup.exists

\* C26: with operations called one at a time and no failing file operation, the
\* content present before the session is at exactly one of the live path and the
\* Backup path in every state, the states inside SetManual and inside the
\* goroutine's rewrite included.
C26_OriginalNeverLost ==
    (live = FileOf(OrigBody)) # (backup = FileOf(OrigBody))

\* C27: a SetManual whose backup step succeeded and whose saveNewConfig failed
\* returns the error with empty settings and starts no goroutine, and Backup
\* holds the original content; the DeleteManual or Initialize that follows it
\* leaves the original content at the live path and no Backup.
C27_WriteFailureRecoverable ==
    [][\A t \in Threads :
         /\ (ctl[t].op = "SetManual" /\ ctl[t].pc # "ret" /\ ctl'[t].pc = "ret"
                /\ ctl'[t].err \in WriteErrors)
               => /\ IsEmpty(ctl'[t].out)
                  /\ \A m \in Slots : Alive(m)' => Alive(m)
                  /\ backup' = FileOf(OrigBody)
         /\ ((Completes(t, "DeleteManual") \/ Completes(t, "Initialize")) /\ sess = "wfailed")
               => (live' = FileOf(OrigBody) /\ ~backup'.exists)]_vars

====
